---- MODULE Spec2Model ----
(***************************************************************************)
(* Partition-coordination algorithms of dask_cudf (core.py, io/csv.py):    *)
(* the tree reduction graph builder, division alignment, the index join    *)
(* pairing, the binned sort, the chunked CSV reader, the row splitting of  *)
(* from_cudf and concat.                                                   *)
(*                                                                         *)
(* A partition is a sequence of index values in non-decreasing order (one  *)
(* entry per row); a Table is a sequence of partitions.                    *)
(***************************************************************************)
EXTENDS Integers, Sequences, FiniteSets, TLC

VARIABLES
    \* reduction()
    rpc,          \* position in reduction(): start, chunk, combine, agg, done, computed, error
    npartitions,  \* number of partitions of the argument
    split_every,  \* the split_every argument, then its effective value
    dsk,          \* the task graph: key -> [fn, deps]
    a,            \* name of the level being consumed
    k,            \* number of nodes at the level being consumed
    depth,        \* depth of the level being consumed
    vals,         \* chunk results, once the graph is computed
    result,       \* value of the aggregate node, once the graph is computed
    \* DataFrame._align_divisions()
    apc,          \* position in _align_divisions(): start, scan, done, error
    parts,        \* the partitions of the Table being aligned
    uniques,      \* the key-set of each partition, as repaired so far
    originals,    \* the key-set of each partition, as computed
    changed,      \* the flag of the repair loop
    newparts,     \* the partitions of the aligned Table
    round,        \* 1: first alignment, 2: alignment of the aligned Table
    firstparts,   \* the partitions the first alignment returned
    \* DataFrame.join()
    jpc,          \* position in join(): start, alignleft, alignright, selector, select, done, error
    jerr,         \* the exception join() ended in, if any
    how,          \* the how argument
    self,         \* the partitions of the Table join() is called on
    other,        \* the partitions of the other Table
    left,         \* the partitions of the aligned left Table
    leftuniques,  \* the key-sets left alignment returned
    right,        \* the partitions of the aligned right Table
    rightuniques, \* the key-sets right alignment returned
    seli,         \* the left partition the selector is at
    pivot,        \* the selector's cursor into the right partitions
    yielded,      \* what the selector has yielded: [l, r], r = 0 for None
    joinedparts,  \* the output partitions: sequences of rows [idx, rnull]
    \* DataFrame.sort_values_binned()
    spc,          \* position in sort_values_binned(): start, scan, build, done
    sparts,       \* the sorted partitions: the sort-key value of each row
    suniques,     \* the sort-key values of each partition, as reduced so far
    joiner,       \* joiner[i]: the [j, keys] to pull into partition i, in order
    si,           \* the partition the scan is at
    sresults,     \* the output partitions
    \* read_csv()
    cpc,          \* position in read_csv(): start, files, done, error
    sizes,        \* the byte size of each file, in sorted file name order
    chunksize,    \* the chunk size in bytes
    cdsk,         \* the read instructions: i -> [fn, byte_range, names, header]
    ci,           \* the number of the next instruction
    cfile,        \* the file the loop is at
    cdivisions,   \* the divisions of the returned Table
    \* from_cudf()
    fpc,          \* position in from_cudf(): start, segments, end, done, error
    data,         \* the index value of each row of the frame, sorted once sort=True
    fnpartitions, \* the npartitions argument, 0 for None
    fchunksize,   \* the chunksize argument, 0 for None, then its effective value
    sort,         \* the sort argument
    segments,     \* the segment starts and the last row position
    fsi,          \* the segment the loop is at
    splits,       \* the row splits
    flast,        \* last: the segment position of the previous pass
    current_size, \* rows since the last split
    fdivisions,   \* the divisions of the returned Table
    fdsk,         \* the partitions of the returned Table
    \* concat()
    kpc,          \* position in concat(): start, stack, done
    dfs,          \* the Tables: [npartitions, known, divisions]
    interleave_partitions, \* the interleave_partitions argument
    kdivisions,   \* the divisions handed to stack_partitions
    kdsk,         \* the partitions of the result: <<table, partition>>, in order
    ki,           \* the Table stack_partitions is at
    kresult       \* what concat() ended in: Table, None, or the exception

rvars == <<rpc, npartitions, split_every, dsk, a, k, depth, vals, result>>
avars == <<apc, parts, uniques, originals, changed, newparts, round, firstparts>>
jvars == <<jpc, jerr, how, self, other, left, leftuniques, right, rightuniques,
           seli, pivot, yielded, joinedparts>>
svars == <<spc, sparts, suniques, joiner, si, sresults>>
cvars == <<cpc, sizes, chunksize, cdsk, ci, cfile, cdivisions>>

fvars == <<fpc, data, fnpartitions, fchunksize, sort, segments, fsi, splits, flast,
           current_size, fdivisions, fdsk>>
kvars == <<kpc, dfs, interleave_partitions, kdivisions, kdsk, ki, kresult>>

vars == <<rvars, avars, jvars, svars, cvars, fvars, kvars>>

\* ------------------------------------------------------------------ bounds

MaxPartitions == 20
MaxEvalPartitions == 9
MaxSplit == 8
MaxCount == 1
MaxKey == 3
MaxRows == 4
MaxParts == 3
MaxJoinRows == 2
MaxJoinParts == 2
MaxJoinKey == 2
MaxFiles == 3
MaxFileSize == 5
MaxChunk == 3
MaxFrameRows == 4
MaxFrameKey == 3
MaxFrameChunk == 3
MaxTables == 3
MaxTableParts == 2
MaxDivision == 3

\* ----------------------------------------------------------------- helpers

Min2(x, y) == IF x <= y THEN x ELSE y
Max2(x, y) == IF x >= y THEN x ELSE y

Range(f) == {f[x] : x \in DOMAIN f}

Ceil(x, s) == (x + s - 1) \div s

RECURSIVE SumSeq(_)
SumSeq(s) == IF s = <<>> THEN 0 ELSE Head(s) + SumSeq(Tail(s))

\* ------------------------------------------ operations that are not running

ReductionIdle ==
    /\ rpc = "idle"
    /\ npartitions = 0
    /\ split_every = [kind |-> "None", val |-> 0]
    /\ dsk = <<>>
    /\ a = "chunk"
    /\ k = 0
    /\ depth = 0
    /\ vals = <<>>
    /\ result = 0

AlignIdle ==
    /\ apc = "idle"
    /\ parts = <<>>
    /\ uniques = <<>>
    /\ originals = <<>>
    /\ changed = FALSE
    /\ newparts = <<>>
    /\ round = 0
    /\ firstparts = <<>>

JoinIdle ==
    /\ jpc = "idle"
    /\ jerr = ""
    /\ how = ""
    /\ self = <<>>
    /\ other = <<>>
    /\ left = <<>>
    /\ leftuniques = <<>>
    /\ right = <<>>
    /\ rightuniques = <<>>
    /\ seli = 0
    /\ pivot = 0
    /\ yielded = <<>>
    /\ joinedparts = <<>>

SortIdle ==
    /\ spc = "idle"
    /\ sparts = <<>>
    /\ suniques = <<>>
    /\ joiner = <<>>
    /\ si = 0
    /\ sresults = <<>>

CsvIdle ==
    /\ cpc = "idle"
    /\ sizes = <<>>
    /\ chunksize = 0
    /\ cdsk = <<>>
    /\ ci = 0
    /\ cfile = 0
    /\ cdivisions = <<>>

FromCudfIdle ==
    /\ fpc = "idle"
    /\ data = <<>>
    /\ fnpartitions = 0
    /\ fchunksize = 0
    /\ sort = TRUE
    /\ segments = <<>>
    /\ fsi = 0
    /\ splits = <<>>
    /\ flast = 0
    /\ current_size = 0
    /\ fdivisions = <<>>
    /\ fdsk = <<>>

ConcatIdle ==
    /\ kpc = "idle"
    /\ dfs = <<>>
    /\ interleave_partitions = FALSE
    /\ kdivisions = <<>>
    /\ kdsk = <<>>
    /\ ki = 0
    /\ kresult = ""

\* ------------------------------------------------------------------ Tables

\* The index values of the rows of a partition of n rows, in index order.
SortedSeqs(n, maxKey) == {s \in [1..n -> 1..maxKey] : \A i \in 1..(n - 1) : s[i] <= s[i + 1]}

\* The places where a sequence of n rows is cut into m partitions.
CutPoints(n, m) == {c \in [1..(m - 1) -> 0..n] : \A j \in 1..(m - 2) : c[j] <= c[j + 1]}

\* The rows r cut at c into Len(c) + 1 partitions, some of them possibly empty.
Split(r, c) ==
    [j \in 1..(Len(c) + 1) |->
        SubSeq(r, (IF j = 1 THEN 0 ELSE c[j - 1]) + 1,
                  IF j = Len(c) + 1 THEN Len(r) ELSE c[j])]

\* The Tables of at most maxRows rows with index values 1..maxKey in at most
\* maxParts partitions whose partitions are sorted and follow each other in
\* index order.
TablesOf(maxRows, maxParts, maxKey) ==
    UNION {UNION {{Split(r, c) : c \in CutPoints(Len(r), m)} : m \in 1..maxParts} :
              r \in UNION {SortedSeqs(n, maxKey) : n \in 0..maxRows}}

\* ------------------------------------------------- division alignment

MaxOf(S) == CHOOSE x \in S : \A y \in S : y <= x
MinOf(S) == CHOOSE x \in S : \A y \in S : x <= y

RECURSIVE Concat(_)
Concat(ss) == IF ss = <<>> THEN <<>> ELSE Head(ss) \o Concat(Tail(ss))

\* set(x.index.as_column().unique().to_array())
Unique(p) == {p[i] : i \in DOMAIN p}

\* _get_unique_indices: the key-set of each partition
GetUniqueIndices(prts) == [i \in DOMAIN prts |-> Unique(prts[i])]

\* list(filter(bool, uniques))
IsNonEmpty(s) == s # {}
FilterNonEmpty(u) == SelectSeq(u, IsNonEmpty)

\* Mutant of RepairPair: the intersection is taken out of the smaller set too.
RepairPairBoth(u, i) ==
    LET intersect == u[i] \cap u[i + 1]
    IN  [u EXCEPT ![i] = @ \ intersect, ![i + 1] = @ \ intersect]

\* lines 356-359: min and max by len return the first of two sets of equal
\* size, so on a tie smaller and bigger are both uniques[i].
RepairPair(u, i) ==
    LET intersect == u[i] \cap u[i + 1]
        smaller == IF Cardinality(u[i]) <= Cardinality(u[i + 1]) THEN i ELSE i + 1
        bigger == IF Cardinality(u[i]) >= Cardinality(u[i + 1]) THEN i ELSE i + 1
        u1 == [u EXCEPT ![smaller] = @ \cup intersect]
    IN  [u1 EXCEPT ![bigger] = @ \ intersect]

\* lines 353-360: one pass of the for loop, from pair i on; ch is "changed".
RECURSIVE ScanFrom(_, _, _)
ScanFrom(u, i, ch) ==
    IF i >= Len(u) THEN [u |-> u, changed |-> ch]
    ELSE IF u[i] \cap u[i + 1] # {}
         THEN ScanFrom(RepairPair(u, i), i + 1, TRUE)
         ELSE ScanFrom(u, i + 1, ch)

\* d.loc[s:e] of a partition in index order: the rows with s <= index <= e
LocSlice(d, s, e) == SelectSeq(d, LAMBDA x : s <= x /\ x <= e)

\* lines 402-404: the partitions whose key-set meets idxset, in order
Depends(idxset, orig, prts) ==
    LET RECURSIVE From(_)
        From(i) == IF i > Len(orig) THEN <<>>
                   ELSE (IF idxset \cap orig[i] # {} THEN <<prts[i]>> ELSE <<>>)
                        \o From(i + 1)
    IN  From(1)

\* lines 406-419: take(indices, depends)
Take(indices, depends) ==
    LET first == MinOf(indices)
        last == MaxOf(indices)
    IN  Concat([j \in 1..Len(depends) |->
                   LocSlice(depends[j],
                            Max2(first, depends[j][1]),
                            Min2(last, depends[j][Len(depends[j])]))])

\* The keys of remap, an OrderedDict keyed by tuple(sorted(idxset)): a key-set
\* that comes twice keeps one entry, at its first place.
RECURSIVE RemapKeys(_)
RemapKeys(u) ==
    IF u = <<>> THEN <<>>
    ELSE LET init == RemapKeys(SubSeq(u, 1, Len(u) - 1))
             last == u[Len(u)]
         IN  IF \E j \in 1..Len(init) : init[j] = last THEN init ELSE Append(init, last)

\* Mutant of Extras: the values above the last bucket are not appended.
ExtrasNone(orig, u) == {}

\* lines 393-394: the values of the last original partition above the last bucket
Extras(orig, u) ==
    {x \in orig[Len(orig)] \ u[Len(u)] : x > MaxOf(u[Len(u)])}

\* lines 393-429 of _align_to_indices: uniques[-1] raises IndexError when no
\* bucket is left.
Rebucket(u, orig, prts) ==
    IF Len(u) = 0 THEN [err |-> TRUE, uniques |-> u, newparts |-> <<>>]
    ELSE LET u1 == IF Extras(orig, u) # {} THEN Append(u, Extras(orig, u)) ELSE u
             keys == RemapKeys(u1)
         IN  [err |-> FALSE,
              uniques |-> u1,
              newparts |-> [j \in 1..Len(keys) |->
                               Take(keys[j], Depends(keys[j], orig, prts))]]

\* lines 425-426: divisions = list(map(min, uniques)), then max(uniques[-1])
ComputedDivisions(u) ==
    [i \in 1..(Len(u) + 1) |->
        [known |-> TRUE, val |-> IF i <= Len(u) THEN MinOf(u[i]) ELSE MaxOf(u[Len(u)])]]

\* line 428: from_delayed(newparts, meta=self._meta) is not given the
\* divisions, so the Table it builds has one unknown division per boundary
ReturnedDivisions(prts) ==
    [i \in 1..(Len(prts) + 1) |-> [known |-> FALSE, val |-> 0]]

\* lines 384-391 of _align_to_indices, when originals is None: the buckets are
\* cut down to the values this Table holds
RestrictToIndices(u, prts) ==
    LET allindices == UNION {Unique(prts[i]) : i \in DOMAIN prts}
    IN  FilterNonEmpty([i \in DOMAIN u |-> u[i] \cap allindices])

\* _align_to_indices(uniques) of the Table with partitions prts
AlignToIndices(u, prts) ==
    Rebucket(RestrictToIndices(u, prts), GetUniqueIndices(prts), prts)

InitAlign ==
    /\ apc = "start"
    /\ parts \in TablesOf(MaxRows, MaxParts, MaxKey)
    /\ uniques = <<>>
    /\ originals = <<>>
    /\ changed = FALSE
    /\ newparts = <<>>
    /\ round = 1
    /\ firstparts = <<>>
    /\ ReductionIdle
    /\ JoinIdle
    /\ SortIdle
    /\ CsvIdle
    /\ FromCudfIdle
    /\ ConcatIdle

\* lines 346-350
AlignStart ==
    /\ apc = "start"
    /\ uniques' = GetUniqueIndices(parts)
    /\ originals' = GetUniqueIndices(parts)
    /\ changed' = TRUE
    /\ apc' = "scan"
    /\ UNCHANGED <<parts, newparts, round, firstparts>>
    /\ UNCHANGED <<rvars, jvars, svars, cvars, fvars, kvars>>

\* lines 351-360: one iteration of "while changed"
AlignScan ==
    /\ apc = "scan"
    /\ changed
    /\ uniques' = ScanFrom(uniques, 1, FALSE).u
    /\ changed' = ScanFrom(uniques, 1, FALSE).changed
    /\ UNCHANGED <<apc, parts, originals, newparts, round, firstparts>>
    /\ UNCHANGED <<rvars, jvars, svars, cvars, fvars, kvars>>

\* lines 362-365: the loop has ended; empty key-sets are dropped and the
\* partitions re-bucketed
AlignRebucket ==
    /\ apc = "scan"
    /\ ~changed
    /\ LET r == Rebucket(FilterNonEmpty(uniques), originals, parts)
       IN  /\ apc' = IF r.err THEN "error" ELSE "done"
           /\ uniques' = r.uniques
           /\ newparts' = r.newparts
    /\ UNCHANGED <<parts, originals, changed, round, firstparts>>
    /\ UNCHANGED <<rvars, jvars, svars, cvars, fvars, kvars>>

\* _align_divisions() is called on the Table it returned
Realign ==
    /\ apc = "done"
    /\ round = 1
    /\ firstparts' = newparts
    /\ parts' = newparts
    /\ round' = 2
    /\ apc' = "start"
    /\ uniques' = <<>>
    /\ originals' = <<>>
    /\ changed' = FALSE
    /\ newparts' = <<>>
    /\ UNCHANGED <<rvars, jvars, svars, cvars, fvars, kvars>>

NextAlign ==
    \/ AlignStart
    \/ AlignScan
    \/ AlignRebucket
    \/ Realign

SpecAlign == InitAlign /\ [][NextAlign]_vars

\* The repair loop of _align_divisions (lines 350-360) on any sequence of
\* key-sets: the Table's partitions need not be in index order.
KeySetSeqs(maxParts, maxKey) ==
    UNION {[1..n -> SUBSET (1..maxKey)] : n \in 0..maxParts}

InitRepair ==
    /\ apc = "scan"
    /\ parts = <<>>
    /\ uniques \in KeySetSeqs(MaxParts, MaxKey)
    /\ originals = uniques
    /\ changed = TRUE
    /\ newparts = <<>>
    /\ round = 1
    /\ firstparts = <<>>
    /\ ReductionIdle
    /\ JoinIdle
    /\ SortIdle
    /\ CsvIdle
    /\ FromCudfIdle
    /\ ConcatIdle

NextRepair == AlignScan

\* The loop is sequential code: a pass that can run does run.
SpecRepair == InitRepair /\ [][NextRepair]_vars /\ WF_vars(AlignScan)

\* ------------------------------------------- claims on division alignment

\* The repair loop has exited: "while changed" finds changed False.
LoopExited == apc = "scan" /\ ~changed

\* C13: on every sequence of key-sets the repair loop exits; when it has, no
\* two adjacent key-sets intersect and the union of the key-sets is the union
\* before the loop.
C13_RepairLoopTerminates ==
    /\ <>LoopExited
    /\ [](LoopExited =>
             /\ \A i \in 1..(Len(uniques) - 1) : uniques[i] \cap uniques[i + 1] = {}
             /\ UNION Range(uniques) = UNION Range(originals)
             /\ Len(uniques) = Len(originals))

\* The loop has exited after repairing two intersecting key-sets of equal size.
C13_Witness ==
    /\ LoopExited
    /\ uniques # originals
    /\ \E i \in 1..(Len(originals) - 1) :
           /\ originals[i] \cap originals[i + 1] # {}
           /\ Cardinality(originals[i]) = Cardinality(originals[i + 1])

\* How many rows of the sequence s have index value v.
CountOf(s, v) == Cardinality({i \in DOMAIN s : s[i] = v})

\* C3: after _align_divisions of a Table in index order the key-sets of the
\* output partitions are non-empty and pairwise disjoint (every pair, not
\* only neighbours), and every index value of the input is in exactly one
\* output partition.
C3_AlignedKeySetsExclusive ==
    apc = "done" /\ round = 1 =>
        /\ \A i \in DOMAIN newparts : Unique(newparts[i]) # {}
        /\ \A i, j \in DOMAIN newparts :
               i # j => Unique(newparts[i]) \cap Unique(newparts[j]) = {}
        /\ \A v \in Unique(Concat(parts)) :
               Cardinality({i \in DOMAIN newparts : v \in Unique(newparts[i])}) = 1

\* C4: _align_divisions neither drops nor duplicates rows: every index value
\* has as many rows in the output partitions as in the input partitions,
\* empty input partitions included.
C4_AlignmentKeepsRows ==
    apc = "done" /\ round = 1 =>
        \A v \in 1..MaxKey : CountOf(Concat(newparts), v) = CountOf(Concat(parts), v)

\* C10: _align_divisions applied to the Table _align_divisions returned gives
\* the same sequence of partition key-sets as the first application.
C10_AlignmentIdempotent ==
    apc = "done" /\ round = 2 =>
        GetUniqueIndices(newparts) = GetUniqueIndices(firstparts)

\* C15: the Table alignment returns has the known divisions min(bucket_0),
\* ..., min(bucket_{m-1}), max(bucket_{m-1}); they do not decrease and every
\* index value of output partition i lies in [divisions[i], divisions[i+1]].
C15_AlignedDivisionsKnown ==
    apc = "done" /\ round = 1 =>
        LET dv == ReturnedDivisions(newparts)
        IN  /\ \A i \in DOMAIN dv : dv[i].known
            /\ dv = ComputedDivisions(uniques)
            /\ \A i \in 1..(Len(dv) - 1) : dv[i].val <= dv[i + 1].val
            /\ \A i \in DOMAIN newparts : \A q \in DOMAIN newparts[i] :
                   dv[i].val <= newparts[i][q] /\ newparts[i][q] <= dv[i + 1].val

\* ------------------------------------------------------- DataFrame.join()

\* lines 350-360: the repair loop of _align_divisions, run to its end
RECURSIVE RepairLoop(_)
RepairLoop(u) ==
    LET r == ScanFrom(u, 1, FALSE)
    IN  IF r.changed THEN RepairLoop(r.u) ELSE r.u

\* _align_divisions() of the Table with partitions prts
AlignDivisions(prts) ==
    Rebucket(FilterNonEmpty(RepairLoop(GetUniqueIndices(prts))),
             GetUniqueIndices(prts), prts)

\* left.join(right, how=how, sort=True) of two partitions: each left row with
\* each right row of its index value; a left row without one is kept, with
\* null right columns, when how is left
RECURSIVE PartJoin(_, _, _)
PartJoin(l, r, h) ==
    IF l = <<>> THEN <<>>
    ELSE LET v == Head(l)
             n == Cardinality({i \in DOMAIN r : r[i] = v})
             rows == IF n > 0 THEN [i \in 1..n |-> [idx |-> v, rnull |-> FALSE]]
                     ELSE IF h = "left" THEN <<[idx |-> v, rnull |-> TRUE]>>
                     ELSE <<>>
         IN  rows \o PartJoin(Tail(l), r, h)

\* lines 315-333: fix_column(lhs): the left rows, every right column null
FixColumn(lhs) == [i \in DOMAIN lhs |-> [idx |-> lhs[i], rnull |-> TRUE]]

\* Mutant of FirstMatch: the scan starts one place after pivot.
FirstMatchSkipsPivot(i, pv) ==
    LET js == {j \in (pv + 2)..Len(right) :
                  leftuniques[i + 1] \cap rightuniques[j] # {}}
    IN  IF js = {} THEN 0 ELSE MinOf(js)

\* lines 294-295, 303-304: the first j >= pivot (0-based) with
\* leftuniques[i] & rightuniques[j], as a 1-based place, or 0 when there is none
FirstMatch(i, pv) ==
    LET js == {j \in (pv + 1)..Len(right) :
                  leftuniques[i + 1] \cap rightuniques[j] # {}}
    IN  IF js = {} THEN 0 ELSE MinOf(js)

\* lines 300-309: what left_selector yields for left partition i
LeftSelectorYield(i, pv) == <<[l |-> i + 1, r |-> FirstMatch(i, pv)]>>

\* lines 291-298: what inner_selector yields for left partition i
InnerSelectorYield(i, pv) ==
    IF FirstMatch(i, pv) # 0 THEN <<[l |-> i + 1, r |-> FirstMatch(i, pv)]>> ELSE <<>>

\* lines 335-338: the output partition of a yielded pair
JoinedPart(y, h) ==
    IF y.r # 0 THEN PartJoin(left[y.l], right[y.r], h) ELSE FixColumn(left[y.l])

Hows == {"left", "inner", "right", "outer"}

\* The Tables of the example of two partitions of three rows each.
ExampleLeft == <<<<1, 2, 3>>, <<4, 5, 6>>>>
ExampleRight == <<<<2, 3, 4>>, <<5, 6, 7>>>>

InitJoin ==
    /\ jpc = "start"
    /\ jerr = ""
    /\ how \in Hows
    /\ \/ /\ self \in TablesOf(MaxJoinRows, MaxJoinParts, MaxJoinKey)
          /\ other \in TablesOf(MaxJoinRows, MaxJoinParts, MaxJoinKey)
       \/ /\ self = ExampleLeft
          /\ other = ExampleRight
    /\ left = <<>>
    /\ leftuniques = <<>>
    /\ right = <<>>
    /\ rightuniques = <<>>
    /\ seli = 0
    /\ pivot = 0
    /\ yielded = <<>>
    /\ joinedparts = <<>>
    /\ ReductionIdle
    /\ AlignIdle
    /\ SortIdle
    /\ CsvIdle
    /\ FromCudfIdle
    /\ ConcatIdle

\* lines 269-270: a right join is the left join of the swapped Tables
JoinStart ==
    /\ jpc = "start"
    /\ IF how = "right"
       THEN /\ self' = other
            /\ other' = self
            /\ how' = "left"
       ELSE UNCHANGED <<self, other, how>>
    /\ jpc' = "alignleft"
    /\ UNCHANGED <<jerr, left, leftuniques, right, rightuniques, seli, pivot,
                   yielded, joinedparts>>
    /\ UNCHANGED <<rvars, avars, svars, cvars, fvars, kvars>>

\* line 279: left, leftuniques = self._align_divisions()
JoinAlignLeft ==
    /\ jpc = "alignleft"
    /\ LET r == AlignDivisions(self)
       IN  IF r.err
           THEN /\ jpc' = "error"
                /\ jerr' = "IndexError"
                /\ UNCHANGED <<left, leftuniques>>
           ELSE /\ jpc' = "alignright"
                /\ left' = r.newparts
                /\ leftuniques' = r.uniques
                /\ UNCHANGED jerr
    /\ UNCHANGED <<how, self, other, right, rightuniques, seli, pivot, yielded,
                   joinedparts>>
    /\ UNCHANGED <<rvars, avars, svars, cvars, fvars, kvars>>

\* line 280: right, rightuniques = other._align_to_indices(leftuniques)
JoinAlignRight ==
    /\ jpc = "alignright"
    /\ LET r == AlignToIndices(leftuniques, other)
       IN  IF r.err
           THEN /\ jpc' = "error"
                /\ jerr' = "IndexError"
                /\ UNCHANGED <<right, rightuniques>>
           ELSE /\ jpc' = "selector"
                /\ right' = r.newparts
                /\ rightuniques' = r.uniques
                /\ UNCHANGED jerr
    /\ UNCHANGED <<how, self, other, left, leftuniques, seli, pivot, yielded,
                   joinedparts>>
    /\ UNCHANGED <<rvars, avars, svars, cvars, fvars, kvars>>

\* line 311: selector = {"left": left_selector, "inner": inner_selector}[how]
JoinPickSelector ==
    /\ jpc = "selector"
    /\ IF how \in {"left", "inner"}
       THEN /\ jpc' = "select"
            /\ UNCHANGED jerr
       ELSE /\ jpc' = "error"
            /\ jerr' = "KeyError"
    /\ seli' = 0
    /\ pivot' = 0
    /\ UNCHANGED <<how, self, other, left, leftuniques, right, rightuniques,
                   yielded, joinedparts>>
    /\ UNCHANGED <<rvars, avars, svars, cvars, fvars, kvars>>

\* lines 335-338 with 291-309: one pass of the selector's "for i" loop and the
\* output partition of what it yields
JoinSelectStep ==
    /\ jpc = "select"
    /\ seli < Len(left)
    /\ LET ys == IF how = "left" THEN LeftSelectorYield(seli, pivot)
                 ELSE InnerSelectorYield(seli, pivot)
       IN  /\ yielded' = yielded \o ys
           /\ joinedparts' = joinedparts \o [n \in 1..Len(ys) |-> JoinedPart(ys[n], how)]
           /\ pivot' = IF ys # <<>> /\ ys[1].r # 0 THEN ys[1].r ELSE pivot
    /\ seli' = seli + 1
    /\ UNCHANGED <<jpc, jerr, how, self, other, left, leftuniques, right, rightuniques>>
    /\ UNCHANGED <<rvars, avars, svars, cvars, fvars, kvars>>

\* lines 340-341: the selector is exhausted
JoinReturn ==
    /\ jpc = "select"
    /\ seli >= Len(left)
    /\ jpc' = "done"
    /\ UNCHANGED <<jerr, how, self, other, left, leftuniques, right, rightuniques,
                   seli, pivot, yielded, joinedparts>>
    /\ UNCHANGED <<rvars, avars, svars, cvars, fvars, kvars>>

NextJoin ==
    \/ JoinStart
    \/ JoinAlignLeft
    \/ JoinAlignRight
    \/ JoinPickSelector
    \/ JoinSelectStep
    \/ JoinReturn

SpecJoin == InitJoin /\ [][NextJoin]_vars

\* ------------------------------------------------ claims on DataFrame.join()

\* How many rows of the joined partition s have index value v.
CountIdx(s, v) == Cardinality({i \in DOMAIN s : s[i].idx = v})

\* The pairs a selector yields with a right partition.
IsMatched(y) == y.r # 0
MatchedOf(ys) == SelectSeq(ys, IsMatched)

\* What a selector yields over all left partitions, from partition i on.
RECURSIVE LeftSelectorFrom(_, _)
LeftSelectorFrom(i, pv) ==
    IF i >= Len(left) THEN <<>>
    ELSE LET ys == LeftSelectorYield(i, pv)
         IN  ys \o LeftSelectorFrom(i + 1, IF ys # <<>> /\ ys[1].r # 0 THEN ys[1].r ELSE pv)

RECURSIVE InnerSelectorFrom(_, _)
InnerSelectorFrom(i, pv) ==
    IF i >= Len(left) THEN <<>>
    ELSE LET ys == InnerSelectorYield(i, pv)
         IN  ys \o InnerSelectorFrom(i + 1, IF ys # <<>> THEN ys[1].r ELSE pv)

\* C5: in a left join of two Tables that hold rows, the right one with no
\* index value twice, join() returns, every row of the left Table is in the
\* output partitions exactly once, and the right columns of a row are null
\* exactly when its left partition was matched with no right partition.
C5_LeftJoinKeepsLeftRows ==
    /\ how = "left"
    /\ jpc \in {"done", "error"}
    /\ Concat(self) # <<>>
    /\ Concat(other) # <<>>
    /\ \A v \in Unique(Concat(other)) : CountOf(Concat(other), v) = 1
    => /\ jpc = "done"
       /\ \A v \in Unique(Concat(self)) :
              CountIdx(Concat(joinedparts), v) = CountOf(Concat(self), v)
       /\ \A i \in DOMAIN joinedparts : \A q \in DOMAIN joinedparts[i] :
              joinedparts[i][q].rnull <=> yielded[i].r = 0

\* What C6 says of a returned join(): a left join has one output partition
\* per aligned left partition, in left order: its join with the matched right
\* partition, or, without a match, its rows with every right column null; an
\* inner join has one output partition per matched pair and none for an
\* unmatched left partition; both selectors choose the same matched pairs.
JoinOutputAsClaimed ==
        /\ how = "left" =>
               /\ Len(joinedparts) = Len(left)
               /\ \A i \in 1..Len(left) :
                      /\ yielded[i].l = i
                      /\ yielded[i].r # 0 =>
                             joinedparts[i] = PartJoin(left[i], right[yielded[i].r], "left")
                      /\ yielded[i].r = 0 =>
                             /\ Len(joinedparts[i]) = Len(left[i])
                             /\ \A q \in 1..Len(left[i]) :
                                    joinedparts[i][q] = [idx |-> left[i][q], rnull |-> TRUE]
        /\ how = "inner" =>
               /\ Len(joinedparts) = Len(yielded)
               /\ \A n \in 1..Len(yielded) :
                      /\ yielded[n].r # 0
                      /\ joinedparts[n] =
                             PartJoin(left[yielded[n].l], right[yielded[n].r], "inner")
               /\ \A i \in 1..Len(left) :
                      Cardinality({n \in 1..Len(yielded) : yielded[n].l = i}) =
                          IF \E y \in Range(MatchedOf(LeftSelectorFrom(0, 0))) : y.l = i
                          THEN 1 ELSE 0
        /\ MatchedOf(LeftSelectorFrom(0, 0)) = InnerSelectorFrom(0, 0)
        /\ MatchedOf(yielded) = InnerSelectorFrom(0, 0)

\* C6: a left or inner join() of two Tables that hold rows returns, with
\* the output partitions JoinOutputAsClaimed describes.
C6_JoinOutputPartitions ==
    /\ how \in {"left", "inner"}
    /\ jpc \in {"done", "error"}
    /\ Concat(self) # <<>>
    /\ Concat(other) # <<>>
    => /\ jpc = "done"
       /\ JoinOutputAsClaimed

\* C7 as stated: the example Tables align to the four partitions {1}, {2,3},
\* {4}, {5,6,7} and the inner pairing yields exactly 3 matched pairs.
C7_ExampleAsStated ==
    /\ jpc = "done"
    /\ how = "inner"
    /\ self = ExampleLeft
    /\ other = ExampleRight
    => /\ Range(GetUniqueIndices(left)) \cup Range(GetUniqueIndices(right)) =
              {{1}, {2, 3}, {4}, {5, 6, 7}}
       /\ Len(yielded) = 3

\* C7 as amended: the example's left Table keeps its two partitions {1,2,3}
\* and {4,5,6}, the right Table is re-bucketed into {2,3}, {4,5,6} and {7},
\* and the inner pairing yields exactly 2 matched pairs, the first with the
\* first and the second with the second; the right partition {7} is in none.
C7_ExampleAligned ==
    /\ jpc = "done"
    /\ how = "inner"
    /\ self = ExampleLeft
    /\ other = ExampleRight
    => /\ GetUniqueIndices(left) = <<{1, 2, 3}, {4, 5, 6}>>
       /\ GetUniqueIndices(right) = <<{2, 3}, {4, 5, 6}, {7}>>
       /\ yielded = <<[l |-> 1, r |-> 1], [l |-> 2, r |-> 2]>>
       /\ Len(joinedparts) = 2

\* The inner join of the example Tables has returned.
C7_Witness ==
    /\ jpc = "done"
    /\ how = "inner"
    /\ self = ExampleLeft
    /\ other = ExampleRight
    /\ Len(right) = 3

\* Left partition l (1-based) and right partition r (1-based) share a key.
Intersects(l, r) == leftuniques[l] \cap rightuniques[r] # {}

\* C14: in every pass of a selector's loop over the left partitions, pivot
\* does not decrease; a pair is yielded with the first right partition at or
\* after pivot that shares a key with the left partition, and pivot becomes
\* the place after it; with no such right partition pivot is unchanged and no
\* pair is matched; so the matched right partitions strictly increase in left
\* order and no left or right partition is in two matched pairs.
C14_PivotMonotonic ==
    [][jpc = "select" /\ seli < Len(left) =>
          LET l == seli + 1
              new == SubSeq(yielded', Len(yielded) + 1, Len(yielded'))
              m == MatchedOf(new)
              all == MatchedOf(yielded')
          IN  /\ pivot' >= pivot
              /\ Len(m) <= 1
              /\ \A n \in DOMAIN new : new[n].l = l
              /\ m # <<>> =>
                     /\ m[1].r > pivot
                     /\ m[1].r <= Len(right)
                     /\ Intersects(l, m[1].r)
                     /\ \A j \in (pivot + 1)..(m[1].r - 1) : ~Intersects(l, j)
                     /\ pivot' = m[1].r
              /\ m = <<>> =>
                     /\ \A j \in (pivot + 1)..Len(right) : ~Intersects(l, j)
                     /\ pivot' = pivot
              /\ \A x, y \in DOMAIN all :
                     x < y => all[x].r < all[y].r /\ all[x].l < all[y].l]_vars

\* A join has returned with two matched pairs and a right partition left over.
C14_Witness ==
    /\ jpc = "done"
    /\ Len(MatchedOf(yielded)) >= 2
    /\ pivot >= 2
    /\ Len(right) > pivot

\* C12: an index join asked with how = "outer" never returns a Table; for
\* every pair of inputs it ends in an explicit not-supported error.
C12_OuterJoinNotSupported ==
    how = "outer" /\ jpc \in {"done", "error"} =>
        /\ jpc = "error"
        /\ jerr = "NotImplementedError"

\* ------------------------------------------ DataFrame.sort_values_binned()

\* lines 560-568: the inner loop for partition i, from partition j on
RECURSIVE ScanJoinee(_, _, _, _)
ScanJoinee(u, i, j, tojoin) ==
    IF j > Len(u) THEN [u |-> u, tojoin |-> tojoin]
    ELSE LET intersect == u[i] \cap u[j]
         IN  IF intersect # {}
             THEN ScanJoinee([u EXCEPT ![j] = @ \ intersect], i, j + 1,
                             Append(tojoin, [j |-> j, keys |-> intersect]))
             ELSE [u |-> u, tojoin |-> tojoin]

\* lines 575-583: drop(df, keep_keys): the rows whose key is one of keep_keys
Drop(df, keepkeys) == SelectSeq(df, LAMBDA x : x \in keepkeys)

\* The elements of a set of numbers in increasing order: sorted(keys)
RECURSIVE Sorted(_)
Sorted(S) == IF S = {} THEN <<>> ELSE <<MinOf(S)>> \o Sorted(S \ {MinOf(S)})

\* lines 570-573: join(df, other, keys): df, then other's rows of each key
JoinKeys(df, oth, keys) ==
    df \o Concat([n \in 1..Cardinality(keys) |->
                     SelectSeq(oth, LAMBDA x : x = Sorted(keys)[n])])

\* lines 588-589: the joins of joiner[i], in order, onto partition i
RECURSIVE JoinAll(_, _, _)
JoinAll(df, tojoin, prts) ==
    IF tojoin = <<>> THEN df
    ELSE JoinAll(JoinKeys(df, prts[Head(tojoin).j], Head(tojoin).keys),
                 Tail(tojoin), prts)

\* lines 585-589: the for loop from partition i on; parts[i] is replaced in
\* place, the partitions after i are still as sorted
RECURSIVE BuildFrom(_, _, _, _)
BuildFrom(prts, u, jn, i) ==
    IF i > Len(prts) THEN prts
    ELSE IF u[i] # {}
         THEN BuildFrom([prts EXCEPT ![i] = JoinAll(Drop(prts[i], u[i]), jn[i], prts)],
                        u, jn, i + 1)
         ELSE BuildFrom(prts, u, jn, i + 1)

\* line 591: results = [p for i, p in enumerate(parts) if uniques[i]]
RECURSIVE Results(_, _, _)
Results(prts, u, i) ==
    IF i > Len(prts) THEN <<>>
    ELSE (IF u[i] # {} THEN <<prts[i]>> ELSE <<>>) \o Results(prts, u, i + 1)

InitSort ==
    /\ spc = "start"
    /\ sparts \in TablesOf(MaxRows, MaxParts, MaxKey)
    /\ suniques = <<>>
    /\ joiner = <<>>
    /\ si = 0
    /\ sresults = <<>>
    /\ ReductionIdle
    /\ AlignIdle
    /\ JoinIdle
    /\ CsvIdle
    /\ FromCudfIdle
    /\ ConcatIdle

\* lines 548-557: the partitions are sorted; their key-sets are computed
SortStart ==
    /\ spc = "start"
    /\ suniques' = GetUniqueIndices(sparts)
    /\ joiner' = <<>>
    /\ si' = 1
    /\ spc' = "scan"
    /\ UNCHANGED <<sparts, sresults>>
    /\ UNCHANGED <<rvars, avars, jvars, cvars, fvars, kvars>>

\* lines 558-568: one pass of the outer loop
SortScanStep ==
    /\ spc = "scan"
    /\ si <= Len(sparts)
    /\ LET r == ScanJoinee(suniques, si, si + 1, <<>>)
       IN  /\ suniques' = r.u
           /\ joiner' = Append(joiner, r.tojoin)
    /\ si' = si + 1
    /\ UNCHANGED <<spc, sparts, sresults>>
    /\ UNCHANGED <<rvars, avars, jvars, cvars, fvars, kvars>>

\* lines 585-592: the keys are dropped and joined, empty partitions left out
SortBuild ==
    /\ spc = "scan"
    /\ si > Len(sparts)
    /\ sresults' = Results(BuildFrom(sparts, suniques, joiner, 1), suniques, 1)
    /\ spc' = "done"
    /\ UNCHANGED <<sparts, suniques, joiner, si>>
    /\ UNCHANGED <<rvars, avars, jvars, cvars, fvars, kvars>>

NextSort ==
    \/ SortStart
    \/ SortScanStep
    \/ SortBuild

SpecSort == InitSort /\ [][NextSort]_vars

\* C8: after sort_values_binned on partitions in sort order, empty ones and
\* keys spanning three partitions included, no key value is in two output
\* partitions, every key value has as many rows in the output as in the
\* input, and no output partition is empty.
C8_BinnedSortExclusive ==
    spc = "done" =>
        /\ \A i, j \in DOMAIN sresults :
               i # j => Unique(sresults[i]) \cap Unique(sresults[j]) = {}
        /\ \A v \in 1..MaxKey :
               CountOf(Concat(sresults), v) = CountOf(Concat(sparts), v)
        /\ \A i \in DOMAIN sresults : sresults[i] # <<>>

\* ------------------------------------------------------------- read_csv()

\* range(start, stop, step) as a sequence
RECURSIVE PyRangeStep(_, _, _)
PyRangeStep(start, stop, step) ==
    IF start >= stop THEN <<>>
    ELSE <<start>> \o PyRangeStep(start + step, stop, step)

\* Mutant of CsvKwargs: the header is kept at every chunk's start.
CsvKwargsAlwaysHeader(start, c) ==
    [byte_range |-> <<start, c>>, names |-> "unset", header |-> "unset"]

\* lines 26-33: kwargs2 of the chunk at byte start
CsvKwargs(start, c) ==
    [byte_range |-> <<start, c>>,
     names |-> IF start # 0 THEN "meta.columns" ELSE "unset",
     header |-> IF start # 0 THEN "None" ELSE "unset"]

\* lines 25-35: the instructions of file fn, numbered from i
CsvFileTasks(fn, size, c, i) ==
    LET starts == PyRangeStep(0, size, c)
    IN  [n \in i..(i + Len(starts) - 1) |->
            [fn |-> fn, kwargs |-> CsvKwargs(starts[n - i + 1], c)]]

InitCsv ==
    /\ cpc = "start"
    /\ sizes \in UNION {[1..n -> 0..MaxFileSize] : n \in 0..MaxFiles}
    /\ chunksize \in 1..MaxChunk
    /\ cdsk = <<>>
    /\ ci = 0
    /\ cfile = 0
    /\ cdivisions = <<>>
    /\ ReductionIdle
    /\ AlignIdle
    /\ JoinIdle
    /\ SortIdle
    /\ FromCudfIdle
    /\ ConcatIdle

\* lines 14-22: filenames[0] raises IndexError when no file matches
CsvStart ==
    /\ cpc = "start"
    /\ cpc' = IF Len(sizes) = 0 THEN "error" ELSE "files"
    /\ cdsk' = <<>>
    /\ ci' = 0
    /\ cfile' = 1
    /\ UNCHANGED <<sizes, chunksize, cdivisions>>
    /\ UNCHANGED <<rvars, avars, jvars, svars, fvars, kvars>>

\* lines 23-35: one pass of "for fn in filenames"
CsvFileStep ==
    /\ cpc = "files"
    /\ cfile <= Len(sizes)
    /\ LET tasks == CsvFileTasks(cfile, sizes[cfile], chunksize, ci)
       IN  /\ cdsk' = tasks @@ cdsk
           /\ ci' = ci + Cardinality(DOMAIN tasks)
    /\ cfile' = cfile + 1
    /\ UNCHANGED <<cpc, sizes, chunksize, cdivisions>>
    /\ UNCHANGED <<rvars, avars, jvars, svars, fvars, kvars>>

\* lines 37-38: divisions = [None] * (len(dsk) + 1)
CsvReturn ==
    /\ cpc = "files"
    /\ cfile > Len(sizes)
    /\ cdivisions' = [n \in 1..(Cardinality(DOMAIN cdsk) + 1) |-> "None"]
    /\ cpc' = "done"
    /\ UNCHANGED <<sizes, chunksize, cdsk, ci, cfile>>
    /\ UNCHANGED <<rvars, avars, jvars, svars, fvars, kvars>>

NextCsv ==
    \/ CsvStart
    \/ CsvFileStep
    \/ CsvReturn

SpecCsv == InitCsv /\ [][NextCsv]_vars

\* --------------------------------------------------- claims on read_csv()

\* The number of instructions of the files before file f.
RECURSIVE TasksBefore(_)
TasksBefore(f) == IF f <= 1 THEN 0 ELSE TasksBefore(f - 1) + Ceil(sizes[f - 1], chunksize)

\* What C9 says of a returned read_csv: per file of size S exactly ceil(S/c)
\* instructions with byte ranges (k*c, c), k = 0 .. ceil(S/c)-1, which start
\* at 0, follow each other and cover every byte of the file; the instructions
\* are numbered from 0 in file order, then offset order; only the instruction
\* at offset 0 of a file keeps header handling, the later ones carry the
\* column names of the meta frame and header None; the Table has N partitions
\* and N + 1 divisions, all unknown.
ChunksAsClaimed ==
    LET total == TasksBefore(Len(sizes) + 1)
    IN  /\ DOMAIN cdsk = 0..(total - 1)
        /\ \A f \in 1..Len(sizes) :
               /\ \A kk \in 0..(Ceil(sizes[f], chunksize) - 1) :
                      LET task == cdsk[TasksBefore(f) + kk]
                      IN  /\ task.fn = f
                          /\ task.kwargs.byte_range = <<kk * chunksize, chunksize>>
                          /\ kk = 0 => /\ task.kwargs.header = "unset"
                                       /\ task.kwargs.names = "unset"
                          /\ kk # 0 => /\ task.kwargs.header = "None"
                                       /\ task.kwargs.names = "meta.columns"
               /\ \A b \in 0..(sizes[f] - 1) :
                      Cardinality({i \in DOMAIN cdsk :
                          /\ cdsk[i].fn = f
                          /\ cdsk[i].kwargs.byte_range[1] <= b
                          /\ b < cdsk[i].kwargs.byte_range[1]
                                     + cdsk[i].kwargs.byte_range[2]}) = 1
        /\ Len(cdivisions) = total + 1
        /\ \A n \in DOMAIN cdivisions : cdivisions[n] = "None"

\* C9 as stated: for every list of files and every chunk size c > 0,
\* read_csv returns a Table built as ChunksAsClaimed says.
C9_ReadCsvEveryList ==
    cpc \in {"done", "error"} => cpc = "done" /\ ChunksAsClaimed

\* C9 as amended: for every list of at least one file and every chunk size
\* c > 0, read_csv returns a Table built as ChunksAsClaimed says.
C9_ReadCsvChunks ==
    cpc \in {"done", "error"} /\ Len(sizes) >= 1 => cpc = "done" /\ ChunksAsClaimed

\* Two files have been read, one of them in three chunks or more.
C9_Witness ==
    /\ cpc = "done"
    /\ Len(sizes) >= 2
    /\ \E f \in DOMAIN sizes : Ceil(sizes[f], chunksize) >= 3
    /\ \E i \in DOMAIN cdsk : i > 0 /\ cdsk[i].kwargs.header = "unset"

\* ------------------------------------------------------------- reduction()

DefaultSplitEvery == 8

\* The values of the split_every argument: None, False, True, integers, and
\* the non-integers val + 0.5.
SplitEveryArgs ==
    {[kind |-> kd, val |-> 0] : kd \in {"None", "False"}}
    \cup {[kind |-> "True", val |-> 1]}
    \cup {[kind |-> "int", val |-> v] : v \in -1..MaxSplit}
    \cup {[kind |-> "float", val |-> v] : v \in 1..3}

\* Mutant of SplitEveryInvalid: the isinstance test is left out.
SplitEveryBelowTwo(se) ==
    \/ se.kind = "True"
    \/ se.kind = "float" /\ se.val < 2
    \/ se.kind = "int" /\ se.val < 2

\* split_every < 2 or not isinstance(split_every, int)
SplitEveryInvalid(se) ==
    \/ se.kind = "True"
    \/ se.kind = "float"
    \/ se.kind = "int" /\ se.val < 2

\* The effective fan-in of a valid argument.
EffectiveSplit(se, n) ==
    IF se.kind = "None" THEN DefaultSplitEvery
    ELSE IF se.kind = "False" THEN n
    ELSE se.val

\* range(n) as a sequence
PyRange(n) == [i \in 1..n |-> i - 1]

\* Mutant of PartitionAll: toolz.partition, which drops a short last tuple.
RECURSIVE PartitionDropShort(_, _)
PartitionDropShort(n, seq) ==
    IF Len(seq) < n THEN <<>>
    ELSE <<SubSeq(seq, 1, n)>> \o PartitionDropShort(n, SubSeq(seq, n + 1, Len(seq)))

\* toolz.partition_all(n, seq): consecutive tuples of n items, the last one shorter
RECURSIVE PartitionAll(_, _)
PartitionAll(n, seq) ==
    IF seq = <<>> THEN <<>>
    ELSE IF Len(seq) <= n THEN <<seq>>
    ELSE <<SubSeq(seq, 1, n)>> \o PartitionAll(n, SubSeq(seq, n + 1, Len(seq)))

AggKey == <<"agg", 0>>

\* {(a, 0, i): (chunk, key) for i, key in enumerate(args[0].__dask_keys__())}
ChunkNodes(n) ==
    [key \in {<<"chunk", 0, i>> : i \in 0..(n - 1)} |->
        [fn |-> "chunk", deps |-> <<<<"part", key[3]>>>>]]

\* One pass of the body of "while k > split_every": the nodes of level depth + 1.
CombineNodes(name, d, kk, s) ==
    LET buckets == PartitionAll(s, PyRange(kk))
    IN  [key \in {<<"combine", d + 1, p - 1>> : p \in 1..Len(buckets)} |->
            [fn |-> "combine",
             deps |-> [j \in 1..Len(buckets[key[3] + 1]) |->
                          <<name, d, buckets[key[3] + 1][j]>>]]]

\* Mutant of NextK: k = part_i, the index of the last bucket instead of the count.
NextKLastIndex(kk, s) == Len(PartitionAll(s, PyRange(kk))) - 1

\* k = part_i + 1 after the for loop over enumerate(partition_all(...))
NextK(kk, s) == Len(PartitionAll(s, PyRange(kk)))

\* conc = (list, [(a, depth, i) for i in range(k)])
AggregateDeps(name, d, kk) == [j \in 1..kk |-> <<name, d, j - 1>>]

InitReduction ==
    /\ rpc = "start"
    /\ npartitions \in 1..MaxPartitions
    /\ split_every \in SplitEveryArgs
    /\ dsk = <<>>
    /\ a = "chunk"
    /\ k = 0
    /\ depth = 0
    /\ vals = <<>>
    /\ result = 0
    /\ AlignIdle
    /\ JoinIdle
    /\ SortIdle
    /\ CsvIdle
    /\ FromCudfIdle
    /\ ConcatIdle

\* lines 872-877: the split_every argument is normalised or rejected
CheckSplitEvery ==
    /\ rpc = "start"
    /\ IF SplitEveryInvalid(split_every)
       THEN /\ rpc' = "error"
            /\ UNCHANGED split_every
       ELSE /\ rpc' = "chunk"
            /\ split_every' = [kind |-> "int",
                               val |-> EffectiveSplit(split_every, npartitions)]
    /\ UNCHANGED <<npartitions, dsk, a, k, depth, vals, result>>
    /\ UNCHANGED <<avars, jvars, svars, cvars, fvars, kvars>>

\* lines 889-907: the chunk level, then k = npartitions, depth = 0
BuildChunks ==
    /\ rpc = "chunk"
    /\ dsk' = ChunkNodes(npartitions)
    /\ a' = "chunk"
    /\ k' = npartitions
    /\ depth' = 0
    /\ rpc' = "combine"
    /\ UNCHANGED <<npartitions, split_every, vals, result>>
    /\ UNCHANGED <<avars, jvars, svars, cvars, fvars, kvars>>

\* lines 908-918: one iteration of the while loop
BuildCombineLevel ==
    /\ rpc = "combine"
    /\ k > split_every.val
    /\ dsk' = CombineNodes(a, depth, k, split_every.val) @@ dsk
    /\ k' = NextK(k, split_every.val)
    /\ a' = "combine"
    /\ depth' = depth + 1
    /\ UNCHANGED <<rpc, npartitions, split_every, vals, result>>
    /\ UNCHANGED <<avars, jvars, svars, cvars, fvars, kvars>>

\* lines 920-926: the loop has ended; the aggregate node
BuildAggregate ==
    /\ rpc = "combine"
    /\ ~(k > split_every.val)
    /\ dsk' = (AggKey :> [fn |-> "aggregate", deps |-> AggregateDeps(a, depth, k)]) @@ dsk
    /\ rpc' = "done"
    /\ UNCHANGED <<npartitions, split_every, a, k, depth, vals, result>>
    /\ UNCHANGED <<avars, jvars, svars, cvars, fvars, kvars>>

\* The value of a node of graph g when chunk i yields v[i + 1] and combine and
\* aggregate are np.sum over the list of their inputs (Series.count).
RECURSIVE Eval(_, _, _)
Eval(g, key, v) ==
    IF g[key].fn = "chunk" THEN v[key[3] + 1]
    ELSE SumSeq([j \in 1..Len(g[key].deps) |-> Eval(g, g[key].deps[j], v)])

\* The scheduler computes the graph; the chunk results depend on the data.
Compute ==
    /\ rpc = "done"
    /\ npartitions <= MaxEvalPartitions
    /\ \E v \in [1..npartitions -> 0..MaxCount] :
          /\ vals' = v
          /\ result' = Eval(dsk, AggKey, v)
    /\ rpc' = "computed"
    /\ UNCHANGED <<npartitions, split_every, dsk, a, k, depth>>
    /\ UNCHANGED <<avars, jvars, svars, cvars, fvars, kvars>>

NextReduction ==
    \/ CheckSplitEvery
    \/ BuildChunks
    \/ BuildCombineLevel
    \/ BuildAggregate
    \/ Compute

SpecReduction == InitReduction /\ [][NextReduction]_vars

\* -------------------------------------------------- claims on reduction()

\* Number of nodes at level d of a tree over n partitions with fan-in s.
RECURSIVE LevelSize(_, _, _)
LevelSize(n, s, d) == IF d = 0 THEN n ELSE Ceil(LevelSize(n, s, d - 1), s)

LevelName(d) == IF d = 0 THEN "chunk" ELSE "combine"

LevelKeys(n, s, d) == {<<LevelName(d), d, i>> : i \in 0..(LevelSize(n, s, d) - 1)}

\* How many times key is consumed by the nodes of graph g.
Consumers(g, key) ==
    Cardinality({cj \in UNION {{<<c, j>> : j \in DOMAIN g[c].deps} : c \in DOMAIN g} :
                    g[cj[1]].deps[cj[2]] = key})

\* C1: the graph built by reduction() has exactly N chunk nodes; while the
\* level size k exceeds the fan-in s there is one combine level of ceil(k/s)
\* nodes, node p consuming the consecutive nodes p*s .. min((p+1)*s, k)-1 of
\* the previous level; one aggregate node consumes all k <= s nodes of the
\* last level; every node of a level is consumed exactly once; with s = N
\* there is no combine level; N = 20, s = 8 gives buckets of 8, 8 and 4 and
\* an aggregate over 3 nodes.
C1_TreeShape ==
    rpc = "done" =>
        LET n == npartitions
            s == split_every.val
        IN  /\ DOMAIN dsk =
                   UNION {LevelKeys(n, s, d) : d \in 0..depth} \cup {AggKey}
            /\ \A i \in 0..(n - 1) : dsk[<<"chunk", 0, i>>].fn = "chunk"
            /\ \A d \in 1..depth :
                   /\ LevelSize(n, s, d - 1) > s
                   /\ \A p \in 0..(LevelSize(n, s, d) - 1) :
                          LET lo == p * s
                              hi == Min2((p + 1) * s, LevelSize(n, s, d - 1)) - 1
                          IN  /\ dsk[<<"combine", d, p>>].fn = "combine"
                              /\ dsk[<<"combine", d, p>>].deps =
                                     [j \in 1..(hi - lo + 1) |->
                                         <<LevelName(d - 1), d - 1, lo + j - 1>>]
            /\ LevelSize(n, s, depth) <= s
            /\ dsk[AggKey].fn = "aggregate"
            /\ dsk[AggKey].deps =
                   [j \in 1..LevelSize(n, s, depth) |-> <<LevelName(depth), depth, j - 1>>]
            /\ \A key \in DOMAIN dsk \ {AggKey} : Consumers(dsk, key) = 1
            /\ (s = n => depth = 0)
            /\ (n = 20 /\ s = 8 =>
                   /\ depth = 1
                   /\ Len(dsk[<<"combine", 1, 0>>].deps) = 8
                   /\ Len(dsk[<<"combine", 1, 1>>].deps) = 8
                   /\ Len(dsk[<<"combine", 1, 2>>].deps) = 4
                   /\ Len(dsk[AggKey].deps) = 3)

\* A graph of 20 partitions with fan-in 8 has been built.
C1_Witness ==
    /\ rpc = "done"
    /\ npartitions = 20
    /\ split_every.val = 8
    /\ depth = 1

\* C2: with combine = aggregate = sum, the value of the aggregate node of the
\* graph equals the sum of the flat list of chunk results, whatever the fan-in.
C2_TreeReductionEquivalence ==
    rpc = "computed" => result = SumSeq(vals)

\* A graph with two combine levels has been computed to a non-zero value.
C2_Witness ==
    /\ rpc = "computed"
    /\ depth >= 2
    /\ result >= 2

\* ------------------------------------------- claims on split_every checking

\* The arguments C11 says are accepted: None, False, or an integer >= 2.
AcceptedSplitEvery(se) ==
    \/ se.kind \in {"None", "False"}
    \/ se.kind = "int" /\ se.val >= 2

\* C11: reduction() accepts split_every only when it is None (then 8), False
\* (then the partition count) or an integer >= 2 (then itself); every other
\* value ends in the error, and the error is only ever entered from the
\* check, with no graph node built.
C11_SplitEveryChecked ==
    [][/\ rpc = "start" /\ AcceptedSplitEvery(split_every) =>
              /\ rpc' = "chunk"
              /\ split_every'.kind = "int"
              /\ split_every'.val =
                     IF split_every.kind = "None" THEN 8
                     ELSE IF split_every.kind = "False" THEN npartitions
                     ELSE split_every.val
       /\ rpc = "start" /\ ~AcceptedSplitEvery(split_every) =>
              /\ rpc' = "error"
              /\ dsk' = <<>>
       /\ rpc' = "error" => rpc = "start" /\ dsk' = <<>>]_vars

\* A non-integer above 2 has been rejected.
C11_Witness ==
    /\ rpc = "error"
    /\ split_every.kind = "float"
    /\ split_every.val >= 2
    /\ dsk = <<>>

\* -------------------------------------------------------------- from_cudf()

\* A sorted sequence with x put after the entries that are not above it.
Insert(x, s) ==
    LET n == Cardinality({i \in DOMAIN s : s[i] <= x})
    IN  SubSeq(s, 1, n) \o <<x>> \o SubSeq(s, n + 1, Len(s))

\* line 729: data.sort_index(ascending=True)
RECURSIVE SortIndex(_)
SortIndex(d) ==
    IF d = <<>> THEN <<>> ELSE Insert(d[Len(d)], SortIndex(SubSeq(d, 1, Len(d) - 1)))

\* line 669: df.index.find_segments(): the 0-based positions where a run of
\* equal index values starts
FindSegments(d) == Sorted({p \in 0..(Len(d) - 1) : p = 0 \/ d[p] # d[p + 1]})

\* line 684: df.index.take(splits): the index value at each 0-based position
TakeDivisions(d, sp) == [i \in DOMAIN sp |-> [known |-> TRUE, val |-> d[sp[i] + 1]]]

\* lines 682-683: the last row position is appended unless it is the last split
EnsureEnd(sp, segs) ==
    IF sp[Len(sp)] # segs[Len(segs)] THEN Append(sp, segs[Len(segs)]) ELSE sp

\* lines 735-738: data[start:stop] for the consecutive pairs of splits
FrameSlices(d, sp) ==
    [i \in 1..(Len(sp) - 1) |-> SubSeq(d, sp[i] + 1, Min2(sp[i + 1], Len(d)))]

InitFromCudf ==
    /\ fpc = "start"
    /\ data \in UNION {[1..n -> 1..MaxFrameKey] : n \in 1..MaxFrameRows}
    /\ fnpartitions \in 0..MaxFrameChunk
    /\ fchunksize \in 0..MaxFrameChunk
    /\ sort \in BOOLEAN
    /\ segments = <<>>
    /\ fsi = 0
    /\ splits = <<>>
    /\ flast = 0
    /\ current_size = 0
    /\ fdivisions = <<>>
    /\ fdsk = <<>>
    /\ ReductionIdle
    /\ AlignIdle
    /\ JoinIdle
    /\ SortIdle
    /\ CsvIdle
    /\ ConcatIdle

\* lines 716-719: exactly one of npartitions and chunksize must be given
FromCudfBadArgs ==
    /\ fpc = "start"
    /\ (fnpartitions = 0) = (fchunksize = 0)
    /\ fpc' = "error"
    /\ UNCHANGED <<data, fnpartitions, fchunksize, sort, segments, fsi, splits, flast,
                   current_size, fdivisions, fdsk>>
    /\ UNCHANGED <<rvars, avars, jvars, svars, cvars, kvars>>

\* lines 721-730 and 669-673, sort=True: the frame is sorted, its segments
\* found, the loop variables set
FromCudfSorted ==
    /\ fpc = "start"
    /\ (fnpartitions = 0) # (fchunksize = 0)
    /\ sort
    /\ fchunksize' = IF fchunksize = 0 THEN Ceil(Len(data), fnpartitions) ELSE fchunksize
    /\ data' = SortIndex(data)
    /\ segments' = Append(FindSegments(SortIndex(data)), Len(data) - 1)
    /\ splits' = <<0>>
    /\ flast' = 0
    /\ current_size' = 0
    /\ fsi' = 1
    /\ fpc' = "segments"
    /\ UNCHANGED <<fnpartitions, sort, fdivisions, fdsk>>
    /\ UNCHANGED <<rvars, avars, jvars, svars, cvars, kvars>>

\* lines 721-724 and 731-733, sort=False: splits every chunksize rows,
\* unknown divisions
FromCudfUnsorted ==
    /\ fpc = "start"
    /\ (fnpartitions = 0) # (fchunksize = 0)
    /\ ~sort
    /\ LET c == IF fchunksize = 0 THEN Ceil(Len(data), fnpartitions) ELSE fchunksize
           sp == Append(PyRangeStep(0, Len(data), c), Len(data))
       IN  /\ fchunksize' = c
           /\ splits' = sp
           /\ fdivisions' = [i \in DOMAIN sp |-> [known |-> FALSE, val |-> 0]]
    /\ fpc' = "build"
    /\ UNCHANGED <<data, fnpartitions, sort, segments, fsi, flast, current_size, fdsk>>
    /\ UNCHANGED <<rvars, avars, jvars, svars, cvars, kvars>>

\* lines 674-680: one pass of "for s in segments"
SegmentStep ==
    /\ fpc = "segments"
    /\ fsi <= Len(segments)
    /\ LET s == segments[fsi]
           size == s - flast
       IN  /\ flast' = s
           /\ IF current_size + size >= fchunksize
              THEN /\ splits' = Append(splits, s)
                   /\ current_size' = 0
              ELSE /\ current_size' = current_size + size
                   /\ UNCHANGED splits
    /\ fsi' = fsi + 1
    /\ UNCHANGED <<fpc, data, fnpartitions, fchunksize, sort, segments, fdivisions, fdsk>>
    /\ UNCHANGED <<rvars, avars, jvars, svars, cvars, kvars>>

\* lines 681-687: the end is included, the divisions taken, the last split
\* moved one past the last row
SegmentsEnd ==
    /\ fpc = "segments"
    /\ fsi > Len(segments)
    /\ LET sp == EnsureEnd(splits, segments)
       IN  /\ fdivisions' = TakeDivisions(data, sp)
           /\ splits' = [sp EXCEPT ![Len(sp)] = @ + 1]
    /\ fpc' = "build"
    /\ UNCHANGED <<data, fnpartitions, fchunksize, sort, segments, fsi, flast,
                   current_size, fdsk>>
    /\ UNCHANGED <<rvars, avars, jvars, svars, cvars, kvars>>

\* lines 735-740: the partitions are sliced out of the frame
FromCudfReturn ==
    /\ fpc = "build"
    /\ fdsk' = FrameSlices(data, splits)
    /\ fpc' = "done"
    /\ UNCHANGED <<data, fnpartitions, fchunksize, sort, segments, fsi, splits, flast,
                   current_size, fdivisions>>
    /\ UNCHANGED <<rvars, avars, jvars, svars, cvars, kvars>>

NextFromCudf ==
    \/ FromCudfBadArgs
    \/ FromCudfSorted
    \/ FromCudfUnsorted
    \/ SegmentStep
    \/ SegmentsEnd
    \/ FromCudfReturn

SpecFromCudf == InitFromCudf /\ [][NextFromCudf]_vars

\* C16: from_cudf with sort=True of a frame that holds rows, for a chunk size
\* of 1 or more: the splits start at 0, strictly increase and end at the row
\* count; the partitions are non-empty and hold every row once; there is one
\* division more than partitions, the divisions do not decrease, the index
\* values of partition i lie in [divisions[i], divisions[i+1]], and no
\* interior split is inside a run of equal index values.
C16_FromCudfSplits ==
    fpc = "done" /\ sort =>
        /\ splits[1] = 0
        /\ \A i \in 1..(Len(splits) - 1) : splits[i] < splits[i + 1]
        /\ splits[Len(splits)] = Len(data)
        /\ \A i \in DOMAIN fdsk : fdsk[i] # <<>>
        /\ Concat(fdsk) = data
        /\ Len(fdivisions) = Len(fdsk) + 1
        /\ \A i \in 1..(Len(fdivisions) - 1) :
               fdivisions[i].val <= fdivisions[i + 1].val
        /\ \A i \in DOMAIN fdsk : \A q \in DOMAIN fdsk[i] :
               /\ fdivisions[i].val <= fdsk[i][q]
               /\ fdsk[i][q] <= fdivisions[i + 1].val
        /\ \A i \in 2..(Len(splits) - 1) : data[splits[i]] # data[splits[i] + 1]

\* ----------------------------------------------------------------- concat()

\* The divisions of a Table of n partitions: known and non-decreasing, or
\* all None.
DivisionsOf(n) ==
    {[i \in 1..(n + 1) |-> [known |-> TRUE, val |-> s[i]]] : s \in SortedSeqs(n + 1, MaxDivision)}
    \cup {[i \in 1..(n + 1) |-> [known |-> FALSE, val |-> 0]]}

\* The Tables concat() is given: their partition count and divisions.
Frames ==
    UNION {{[npartitions |-> n, divisions |-> dv] : dv \in DivisionsOf(n)} :
              n \in 1..MaxTableParts}

\* df.known_divisions
KnownDivisions(df) == df.divisions[1].known

\* line 176: dfs[i].divisions[-1] < dfs[i + 1].divisions[0] for every i
StrictlyOrdered(ds) ==
    \A i \in 1..(Len(ds) - 1) :
        ds[i].divisions[Len(ds[i].divisions)].val < ds[i + 1].divisions[1].val

\* lines 178-182: the divisions of every Table but the last without their
\* last one, then the divisions of the last Table
RECURSIVE StackedDivisions(_)
StackedDivisions(ds) ==
    IF Len(ds) = 1 THEN ds[1].divisions
    ELSE SubSeq(ds[1].divisions, 1, Len(ds[1].divisions) - 1) \o StackedDivisions(Tail(ds))

\* df.__dask_keys__(): the partitions of Table i, in order
DaskKeys(i, df) == [p \in 1..df.npartitions |-> <<i, p>>]

InitConcat ==
    /\ kpc = "start"
    /\ dfs \in UNION {[1..n -> Frames] : n \in 1..MaxTables}
    /\ interleave_partitions \in BOOLEAN
    /\ kdivisions = <<>>
    /\ kdsk = <<>>
    /\ ki = 0
    /\ kresult = ""
    /\ ReductionIdle
    /\ AlignIdle
    /\ JoinIdle
    /\ SortIdle
    /\ CsvIdle
    /\ FromCudfIdle

\* lines 171-172: a single Table is returned as it is
ConcatSingle ==
    /\ kpc = "start"
    /\ Len(dfs) = 1
    /\ kdivisions' = dfs[1].divisions
    /\ kdsk' = DaskKeys(1, dfs[1])
    /\ kresult' = "Table"
    /\ kpc' = "done"
    /\ UNCHANGED <<dfs, interleave_partitions, ki>>
    /\ UNCHANGED <<rvars, avars, jvars, svars, cvars, fvars>>

\* lines 174-183: known divisions that follow each other are joined
ConcatKnownOrdered ==
    /\ kpc = "start"
    /\ Len(dfs) # 1
    /\ \A i \in DOMAIN dfs : KnownDivisions(dfs[i])
    /\ StrictlyOrdered(dfs)
    /\ kdivisions' = StackedDivisions(dfs)
    /\ ki' = 1
    /\ kpc' = "stack"
    /\ UNCHANGED <<dfs, interleave_partitions, kdsk, kresult>>
    /\ UNCHANGED <<rvars, avars, jvars, svars, cvars, fvars>>

\* lines 174-176 and the end of the function: with known divisions that do
\* not follow each other no branch returns, and the call gives None
ConcatKnownOverlap ==
    /\ kpc = "start"
    /\ Len(dfs) # 1
    /\ \A i \in DOMAIN dfs : KnownDivisions(dfs[i])
    /\ ~StrictlyOrdered(dfs)
    /\ kresult' = "None"
    /\ kpc' = "done"
    /\ UNCHANGED <<dfs, interleave_partitions, kdivisions, kdsk, ki>>
    /\ UNCHANGED <<rvars, avars, jvars, svars, cvars, fvars>>

\* lines 184-185 with 126-130: concat_indexed_dataframes calls
\* align_partitions on Tables whose divisions are not all known, which
\* raises ValueError
ConcatInterleave ==
    /\ kpc = "start"
    /\ Len(dfs) # 1
    /\ \E i \in DOMAIN dfs : ~KnownDivisions(dfs[i])
    /\ interleave_partitions
    /\ kresult' = "ValueError"
    /\ kpc' = "done"
    /\ UNCHANGED <<dfs, interleave_partitions, kdivisions, kdsk, ki>>
    /\ UNCHANGED <<rvars, avars, jvars, svars, cvars, fvars>>

\* lines 186-188: unknown divisions, one more than the partitions
ConcatUnknown ==
    /\ kpc = "start"
    /\ Len(dfs) # 1
    /\ \E i \in DOMAIN dfs : ~KnownDivisions(dfs[i])
    /\ ~interleave_partitions
    /\ kdivisions' = [i \in 1..(SumSeq([j \in DOMAIN dfs |-> dfs[j].npartitions]) + 1) |->
                          [known |-> FALSE, val |-> 0]]
    /\ ki' = 1
    /\ kpc' = "stack"
    /\ UNCHANGED <<dfs, interleave_partitions, kdsk, kresult>>
    /\ UNCHANGED <<rvars, avars, jvars, svars, cvars, fvars>>

\* lines 150-155 of stack_partitions: the partitions of one Table are added
StackStep ==
    /\ kpc = "stack"
    /\ ki <= Len(dfs)
    /\ kdsk' = kdsk \o DaskKeys(ki, dfs[ki])
    /\ ki' = ki + 1
    /\ UNCHANGED <<kpc, dfs, interleave_partitions, kdivisions, kresult>>
    /\ UNCHANGED <<rvars, avars, jvars, svars, cvars, fvars>>

\* line 157: the stacked Table is returned
StackReturn ==
    /\ kpc = "stack"
    /\ ki > Len(dfs)
    /\ kresult' = "Table"
    /\ kpc' = "done"
    /\ UNCHANGED <<dfs, interleave_partitions, kdivisions, kdsk, ki>>
    /\ UNCHANGED <<rvars, avars, jvars, svars, cvars, fvars>>

NextConcat ==
    \/ ConcatSingle
    \/ ConcatKnownOrdered
    \/ ConcatKnownOverlap
    \/ ConcatInterleave
    \/ ConcatUnknown
    \/ StackStep
    \/ StackReturn

SpecConcat == InitConcat /\ [][NextConcat]_vars

\* C17: concat() of two Tables or more returns a Table whose partitions are
\* the inputs' partitions in input order, as many as the inputs have together,
\* with one division more; the divisions are known exactly when every input
\* has known divisions and each input's last division is below the next
\* input's first, and then they do not decrease.
C17_ConcatStacks ==
    kpc = "done" /\ Len(dfs) >= 2 =>
        /\ kresult = "Table"
        /\ kdsk = Concat([i \in DOMAIN dfs |-> [p \in 1..dfs[i].npartitions |-> <<i, p>>]])
        /\ Len(kdsk) = SumSeq([i \in DOMAIN dfs |-> dfs[i].npartitions])
        /\ Len(kdivisions) = Len(kdsk) + 1
        /\ (\A n \in DOMAIN kdivisions : kdivisions[n].known) <=>
               /\ \A i \in DOMAIN dfs : \A n \in DOMAIN dfs[i].divisions :
                      dfs[i].divisions[n].known
               /\ \A i \in 1..(Len(dfs) - 1) :
                      dfs[i].divisions[dfs[i].npartitions + 1].val <
                          dfs[i + 1].divisions[1].val
        /\ (\A n \in DOMAIN kdivisions : kdivisions[n].known) =>
               \A n \in 1..(Len(kdivisions) - 1) :
                   kdivisions[n].val <= kdivisions[n + 1].val

====
